---- MODULE Spec2Model ----
(***************************************************************************)
(* Multiwii Serial Protocol session (class MultiwiiSerialProtocol of       *)
(* src/src/index.ts) with the framing codec of src/src/utils.ts and the    *)
(* message dispatcher parseMsg of src/src/msg.ts.                          *)
(*                                                                         *)
(* A Buffer is a sequence of bytes 0..255, indexed from 0 by At.  Reading  *)
(* a Buffer outside its range by index gives JavaScript's undefined, which *)
(* is the value Undef; the Buffer.readUInt* methods throw a RangeError     *)
(* there instead.                                                          *)
(***************************************************************************)
EXTENDS Integers, Sequences, FiniteSets, TLC

\* ------------------------------------------------------------------ bounds
MaxRequests == 2
MaxTime == 200
TickMs == 200
MaxPayloadLen == 3
MaxMotors == 3
MaxListeners == 1

\* ------------------------------------------------------- program constants
SYM_BEGIN == 36
PROTO_V1 == 77
PROTO_V2 == 88
FROM_MWC == 62
TO_MWC == 60
UNSUPPORTED == 33
DefaultTimeout == 200

MSP_API_VERSION == 1
MSP_NAME == 10
MSP_FEATURE_CONFIG == 36
MSP_MOTOR == 104
MSP_SET_MOTOR == 214
MSP2_SET_TEXT == 12295

Undef == -1

\* ------------------------------------------------------------ byte helpers
Min(a, b) == IF a < b THEN a ELSE b

Max(a, b) == IF a > b THEN a ELSE b

RECURSIVE BitXor(_, _)
BitXor(a, b) ==
    IF a = 0 THEN b
    ELSE IF b = 0 THEN a
    ELSE (((a % 2) + (b % 2)) % 2) + 2 * BitXor(a \div 2, b \div 2)

\* buff[i] of a Buffer: undefined outside the range
At(buff, i) == IF i >= 0 /\ i < Len(buff) THEN buff[i + 1] ELSE Undef

\* buff.slice(start, end) with both ends clamped to the Buffer
Slice(buff, start, end) ==
    LET s == Min(Max(start, 0), Len(buff))
        e == Min(Max(end, 0), Len(buff))
    IN  IF e <= s THEN <<>> ELSE SubSeq(buff, s + 1, e)

\* buff.readUInt16LE(offset): Undef stands for the RangeError it throws
ReadUInt16LE(buff, offset) ==
    IF offset + 2 <= Len(buff)
    THEN buff[offset + 1] + 256 * buff[offset + 2]
    ELSE Undef

\* ---------------------------------------------------------- checksum, CRC
\* for (i = lo; i < hi; i++) checksum ^= bytes[i], the loop run as its first
\* half followed by its second half.  The running value is a byte; testing
\* it makes TLC compute it before the second half starts, which keeps the
\* evaluation of a 256-byte payload shallow.
RECURSIVE XorFold(_, _, _, _)
XorFold(acc, bytes, lo, hi) ==
    IF lo >= hi \/ acc < 0 THEN acc
    ELSE IF hi = lo + 1 THEN BitXor(acc, At(bytes, lo))
    ELSE LET mid == (lo + hi) \div 2
         IN  XorFold(XorFold(acc, bytes, lo, mid), bytes, mid, hi)

XorAll(acc, bytes) == XorFold(acc, bytes, 0, Len(bytes))

RECURSIVE crc8Shift(_, _)
crc8Shift(crc, n) ==
    IF n = 0 THEN crc
    ELSE crc8Shift(IF crc >= 128
                   THEN BitXor((crc * 2) % 256, 213)
                   ELSE (crc * 2) % 256, n - 1)

crc8DvbS2Restart(crc, ch) == crc8Shift(ch, 8)

crc8DvbS2(crc, ch) == crc8Shift(BitXor(crc, ch), 8)

\* for (ii = start; ii < end; ii++) crc = crc8DvbS2(crc, data[ii]), the loop
\* run as its first half followed by its second half (see XorFold)
RECURSIVE crc8Fold(_, _, _, _)
crc8Fold(crc, data, start, end) ==
    IF start >= end \/ crc < 0 THEN crc
    ELSE IF end = start + 1 THEN crc8DvbS2(crc, At(data, start))
    ELSE LET mid == (start + end) \div 2
         IN  crc8Fold(crc8Fold(crc, data, start, mid), data, mid, end)

crc8DvbS2Data(data, start, end) == crc8Fold(0, data, start, end)

\* ------------------------------------------------------------------ framer
encodeMessageV1(code, data) ==
    LET dataLength == Len(data)
        b3 == dataLength % 256
        b4 == code % 256
        checksum == XorAll(BitXor(b3, b4), data)
    IN  <<36, 77, 60, b3, b4>> \o data \o <<checksum>>

encodeMessageV2BigEndian(code, data) ==
    LET dataLength == Len(data)
        head == <<36, 88, 60, 0, (code \div 256) % 256, code % 256,
                  dataLength % 256, (dataLength \div 256) % 256>> \o data
    IN  head \o <<crc8DvbS2Data(head, 3, Len(head))>>

encodeMessageV2(code, data) ==
    LET dataLength == Len(data)
        head == <<36, 88, 60, 0, code % 256, (code \div 256) % 256,
                  dataLength % 256, (dataLength \div 256) % 256>> \o data
    IN  head \o <<crc8DvbS2Data(head, 3, Len(head))>>

encodeMessage(code, payload) ==
    IF code <= 254 THEN encodeMessageV1(code, payload)
    ELSE encodeMessageV2(code, payload)

\* The result of decodeMessage.  thrown = TRUE: the call threw a RangeError
\* and returned nothing.  Otherwise success/code/len/payload/checksum are the
\* fields of MSPDecodeResult; a failure result has only code (and the
\* "not supported by the flight controller" error for that code).
DecodeThrow ==
    [thrown |-> TRUE, success |-> FALSE, code |-> Undef, len |-> Undef,
     payload |-> <<>>, checksum |-> Undef]

DecodeFail(code) ==
    [thrown |-> FALSE, success |-> FALSE, code |-> code, len |-> Undef,
     payload |-> <<>>, checksum |-> Undef]

DecodeOk(code, len, payload, checksum) ==
    [thrown |-> FALSE, success |-> TRUE, code |-> code, len |-> len,
     payload |-> payload, checksum |-> checksum]

decodeMessageV1Verified(buff) ==
    LET symbol == At(buff, 2)
        code == At(buff, 4)
        len == At(buff, 3)
    IN  IF symbol = UNSUPPORTED THEN DecodeFail(code)
        ELSE IF len = Undef
             THEN DecodeOk(code, Undef, <<>>, Undef)
             ELSE IF At(buff, 5 + len) # XorAll(BitXor(len, code), Slice(buff, 5, 5 + len))
                  THEN DecodeFail(code)
                  ELSE DecodeOk(code, len, Slice(buff, 5, 5 + len), At(buff, 5 + len))

decodeMessageV1ChecksumLast(buff) ==
    LET symbol == At(buff, 2)
        code == At(buff, 4)
        len == At(buff, 3)
    IN  IF symbol = UNSUPPORTED THEN DecodeFail(code)
        ELSE IF len = Undef
             THEN DecodeOk(code, Undef, <<>>, Undef)
             ELSE DecodeOk(code, len, Slice(buff, 5, 5 + len), At(buff, Len(buff) - 1))

decodeMessageV1(buff) ==
    LET symbol == At(buff, 2)
        code == At(buff, 4)
        len == At(buff, 3)
    IN  IF symbol = UNSUPPORTED THEN DecodeFail(code)
        ELSE IF len = Undef
             THEN DecodeOk(code, Undef, <<>>, Undef)
             ELSE DecodeOk(code, len, Slice(buff, 5, 5 + len), At(buff, 5 + len))

decodeMessageV2AnyMarker(buff) ==
    LET code == ReadUInt16LE(buff, 4)
        len == ReadUInt16LE(buff, 6)
    IN  IF code = Undef \/ len = Undef THEN DecodeThrow
        ELSE DecodeOk(code, len,
                      IF len # 0 THEN Slice(buff, 8, 8 + len) ELSE <<>>,
                      At(buff, Len(buff) - 1))

decodeMessageV2(buff) ==
    LET symbol == At(buff, 2)
        code == ReadUInt16LE(buff, 4)
        len == ReadUInt16LE(buff, 6)
    IN  IF code = Undef THEN DecodeThrow
        ELSE IF symbol = UNSUPPORTED THEN DecodeFail(code)
        ELSE IF len = Undef THEN DecodeThrow
        ELSE DecodeOk(code, len,
                      IF len # 0 THEN Slice(buff, 8, 8 + len) ELSE <<>>,
                      At(buff, Len(buff) - 1))

decodeMessageByCode(buff) ==
    IF At(buff, 4) <= 254 THEN decodeMessageV1(buff)
    ELSE decodeMessageV2(buff)

decodeMessage(buff) ==
    IF At(buff, 1) = PROTO_V1 THEN decodeMessageV1(buff)
    ELSE decodeMessageV2(buff)

\* ------------------------------------------------------- payload registry
\* Codes whose case of parseMsg returns {code, name} without reading data
AckCodes ==
    {11, 33, 35, 37, 39, 41, 43, 45, 51, 53, 57, 59, 60, 62, 74, 76, 78, 182, 185, 200, 202, 204, 205, 206, 208, 210, 212, 214, 217, 218, 219, 220, 222, 223, 225, 228, 250, 12295}

\* Codes whose case of parseMsg runs a payload parser
ParserCodes ==
    {1, 2, 3, 4, 5, 10, 32, 34, 40, 46, 56, 58, 64, 77, 80, 88, 96, 101, 102, 103, 104, 105, 106, 107, 108, 109, 110, 112, 120, 124, 125, 126, 127, 128, 129, 130, 131, 132, 135, 137, 138, 139, 150, 160, 164, 184, 189, 238, 12294}

\* Every code that has a case in the switch of parseMsg
ParseMsgCases == AckCodes \cup ParserCodes

MSPCodeName(c) ==
    CASE
       c = 33 -> "MSP_SET_BATTERY_CONFIG"
    [] c = 182 -> "MSP_DISPLAYPORT"
    [] c = 200 -> "MSP_SET_RAW_RC"
    [] c = 202 -> "MSP_SET_PID"
    [] c = 204 -> "MSP_SET_RC_TUNING"
    [] c = 205 -> "MSP_ACC_CALIBRATION"
    [] c = 206 -> "MSP_MAG_CALIBRATION"
    [] c = 222 -> "MSP_SET_MOTOR_CONFIG"
    [] c = 223 -> "MSP_SET_GPS_CONFIG"
    [] c = 225 -> "MSP_SET_GPS_RESCUE"
    [] c = 51 -> "MSP_SET_RSSI_CONFIG"
    [] c = 37 -> "MSP_SET_FEATURE_CONFIG"
    [] c = 185 -> "MSP_SET_BEEPER_CONFIG"
    [] c = 208 -> "MSP_RESET_CONF"
    [] c = 210 -> "MSP_SELECT_SETTING"
    [] c = 212 -> "MSP_SET_SERVO_CONFIGURATION"
    [] c = 250 -> "MSP_EEPROM_WRITE"
    [] c = 41 -> "MSP_SET_CURRENT_METER_CONFIG"
    [] c = 57 -> "MSP_SET_VOLTAGE_METER_CONFIG"
    [] c = 214 -> "MSP_SET_MOTOR"
    [] c = 228 -> "MSP_SET_VTXTABLE_POWERLEVEL"
    [] c = 35 -> "MSP_SET_MODE_RANGE"
    [] c = 53 -> "MSP_SET_ADJUSTMENT_RANGE"
    [] c = 39 -> "MSP_SET_BOARD_ALIGNMENT_CONFIG"
    [] c = 59 -> "MSP_PID_CONTROLLER"
    [] c = 60 -> "MSP_SET_PID_CONTROLLER"
    [] c = 74 -> "MSP_SET_LOOP_TIME"
    [] c = 62 -> "MSP_SET_ARMING_CONFIG"
    [] c = 219 -> "MSP_SET_RESET_CURR_PID"
    [] c = 217 -> "MSP_SET_MOTOR_3D_CONFIG"
    [] c = 43 -> "MSP_SET_MIXER_CONFIG"
    [] c = 218 -> "MSP_SET_RC_DEADBAND"
    [] c = 220 -> "MSP_SET_SENSOR_ALIGNMENT"
    [] c = 45 -> "MSP_SET_RX_CONFIG"
    [] c = 78 -> "MSP_SET_RXFAIL_CONFIG"
    [] c = 76 -> "MSP_SET_FAILSAFE_CONFIG"
    [] c = 11 -> "MSP_SET_NAME"
    [] c = 12295 -> "MSP2_SET_TEXT"
    [] c = 101 -> "MSP_STATUS"
    [] c = 150 -> "MSP_STATUS_EX"
    [] c = 102 -> "MSP_RAW_IMU"
    [] c = 103 -> "MSP_SERVO"
    [] c = 120 -> "MSP_SERVO_CONFIGURATIONS"
    [] c = 104 -> "MSP_MOTOR"
    [] c = 139 -> "MSP_MOTOR_TELEMETRY"
    [] c = 105 -> "MSP_RC"
    [] c = 106 -> "MSP_RAW_GPS"
    [] c = 107 -> "MSP_COMP_GPS"
    [] c = 108 -> "MSP_ATTITUDE"
    [] c = 109 -> "MSP_ALTITUDE"
    [] c = 58 -> "MSP_SONAR"
    [] c = 110 -> "MSP_ANALOG"
    [] c = 128 -> "MSP_VOLTAGE_METERS"
    [] c = 129 -> "MSP_CURRENT_METERS"
    [] c = 130 -> "MSP_BATTERY_STATE"
    [] c = 56 -> "MSP_VOLTAGE_METER_CONFIG"
    [] c = 40 -> "MSP_CURRENT_METER_CONFIG"
    [] c = 32 -> "MSP_BATTERY_CONFIG"
    [] c = 131 -> "MSP_MOTOR_CONFIG"
    [] c = 1 -> "MSP_API_VERSION"
    [] c = 2 -> "MSP_FC_VARIANT"
    [] c = 3 -> "MSP_FC_VERSION"
    [] c = 5 -> "MSP_BUILD_INFO"
    [] c = 4 -> "MSP_BOARD_INFO"
    [] c = 10 -> "MSP_NAME"
    [] c = 160 -> "MSP_UID"
    [] c = 12294 -> "MSP2_GET_TEXT"
    [] c = 184 -> "MSP_BEEPER_CONFIG"
    [] c = 34 -> "MSP_MODE_RANGES"
    [] c = 238 -> "MSP_MODE_RANGES_EXTRA"
    [] c = 124 -> "MSP_MOTOR_3D_CONFIG"
    [] c = 125 -> "MSP_RC_DEADBAND"
    [] c = 132 -> "MSP_GPS_CONFIG"
    [] c = 135 -> "MSP_GPS_RESCUE"
    [] c = 164 -> "MSP_GPS_SV_INFO"
    [] c = 88 -> "MSP_VTX_CONFIG"
    [] c = 137 -> "MSP_VTXTABLE_BAND"
    [] c = 138 -> "MSP_VTXTABLE_POWERLEVEL"
    [] c = 46 -> "MSP_LED_COLORS"
    [] c = 127 -> "MSP_LED_STRIP_MODECOLOR"
    [] c = 77 -> "MSP_RXFAIL_CONFIG"
    [] c = 64 -> "MSP_RX_MAP"
    [] c = 96 -> "MSP_SENSOR_CONFIG"
    [] c = 126 -> "MSP_SENSOR_ALIGNMENT"
    [] c = 112 -> "MSP_PID"
    [] c = 80 -> "MSP_BLACKBOX_CONFIG"
    [] c = 189 -> "MSP_OSD_CANVAS"
      [] OTHER -> "?"

\* `${n}` of a non-negative integer, as character codes
RECURSIVE Digits(_)
Digits(n) == IF n < 10 THEN <<48 + n>> ELSE Digits(n \div 10) \o <<48 + (n % 10)>>

Num(key, n) == [key |-> key, kind |-> "num", val |-> <<n>>]

Str(key, chars) == [key |-> key, kind |-> "str", val |-> chars]

Arr(key, items) == [key |-> key, kind |-> "arr", val |-> items]

\* Result of a payload parser: the fields it returns, or the RangeError that
\* a read past the end of the payload throws
ParseOk(fields) == [status |-> "ok", fields |-> fields]

ParseRangeError == [status |-> "RangeError", fields |-> <<>>]

parseApiVersionMajorMinor(data) ==
    IF Len(data) < 3 THEN ParseRangeError
    ELSE ParseOk(<<Num("mspProtocolVersion", data[1]),
                   Str("apiVersion",
                       Digits(data[1]) \o <<46>> \o Digits(data[2]) \o <<46, 48>>)>>)

parseApiVersion(data) ==
    IF Len(data) < 3 THEN ParseRangeError
    ELSE ParseOk(<<Num("mspProtocolVersion", data[1]),
                   Str("apiVersion",
                       Digits(data[2]) \o <<46>> \o Digits(data[3]) \o <<46, 48>>)>>)

RECURSIVE parseNameFrom(_)
parseNameFrom(data) ==
    IF data = <<>> \/ Head(data) = 0 THEN <<>>
    ELSE <<Head(data)>> \o parseNameFrom(Tail(data))

parseName(data) == ParseOk(<<Str("value", parseNameFrom(data))>>)

\* for (i = 0; i < data.length() / 2; i++) motor.push(data.readU16())
RECURSIVE parseMotorFrom(_, _)
parseMotorFrom(data, i) ==
    IF 2 * i >= Len(data) THEN <<>>
    ELSE <<ReadUInt16LE(data, 2 * i)>> \o parseMotorFrom(data, i + 1)

parseMotor(data) ==
    IF Len(data) % 2 = 1 THEN ParseRangeError
    ELSE ParseOk(<<Arr("motor", parseMotorFrom(data, 0))>>)

NoMsg == [code |-> Undef, name |-> "", fields |-> <<>>]

\* parseMsg(code, payload): status "ok" with the message returned,
\* "RangeError" when the payload parser reads past the payload, "UnknownCode"
\* for the throw after the switch
parseMsgResult(status, msg) == [status |-> status, msg |-> msg]

parseMsg(code, payload) ==
    IF code \notin ParseMsgCases THEN parseMsgResult("UnknownCode", NoMsg)
    ELSE IF code \in AckCodes
    THEN parseMsgResult("ok", [code |-> code, name |-> MSPCodeName(code), fields |-> <<>>])
    ELSE LET r == CASE code = MSP_API_VERSION -> parseApiVersion(payload)
                    [] code = MSP_NAME -> parseName(payload)
                    [] code = MSP_MOTOR -> parseMotor(payload)
         IN  IF r.status = "ok"
             THEN parseMsgResult("ok", [code |-> code, name |-> MSPCodeName(code),
                                        fields |-> r.fields])
             ELSE parseMsgResult(r.status, NoMsg)

\* ----------------------------------------------------------------- inputs
\* A frame as the flight controller sends it: the V1/V2 layout with the
\* direction byte replaced by the given marker ('>' or '!')
deviceFrame(marker, code, payload) ==
    [encodeMessage(code, payload) EXCEPT ![3] = marker]

\* the frame with its last byte, the checksum, changed
corruptChecksum(frame) ==
    [frame EXCEPT ![Len(frame)] = (frame[Len(frame)] + 1) % 256]

\* an answer to MSP_API_VERSION whose length byte announces two of its three
\* payload bytes
ApiVersionChunk == <<36, 77, 60, 2, 1, 2, 1, 45, 44>>

RequestCodes == {MSP_API_VERSION, MSP_NAME, MSP_FEATURE_CONFIG}

RequestPayloads == {<<>>}

TimeoutOptions == {DefaultTimeout}

\* the functions a client registers as listeners
Listeners == {"listener"}

InboundChunks ==
    { deviceFrame(FROM_MWC, MSP_API_VERSION, <<2, 1, 45>>),
      deviceFrame(FROM_MWC, MSP_API_VERSION, <<2>>),
      ApiVersionChunk,
      deviceFrame(FROM_MWC, MSP_NAME, <<65, 66>>),
      corruptChecksum(deviceFrame(FROM_MWC, MSP_NAME, <<65, 66>>)),
      deviceFrame(FROM_MWC, MSP_FEATURE_CONFIG, <<7>>),
      deviceFrame(FROM_MWC, MSP2_SET_TEXT, <<>>),
      deviceFrame(UNSUPPORTED, MSP_NAME, <<>>),
      deviceFrame(UNSUPPORTED, MSP2_SET_TEXT, <<>>),
      <<36, 77>>,
      <<36, 88, 62, 0>> }

\* ------------------------------------------------------------------ state
VARIABLES
    conencted,   \* this.conencted
    timeout,     \* this.timeout, from the constructor option
    errorListeners, \* the listeners registered for 'error' on the session
                 \* (an EventEmitter), in the order emit calls them
    callbacks,   \* this.callbacks: sequence of [code, id]; id names the
                 \* entry's promise (resolve/reject) and its timer
    promise,     \* per request: state of the promise sendMessage returned
    timer,       \* per request: "none", "armed", "cleared" or "fired"
    deadline,    \* per request: the instant its armed timer expires, 0 when
                 \* no timer is armed for it
    written,     \* number of port.write calls
    nextId,      \* number of sendMessage calls so far
    now,         \* current time, ms
    last,        \* what the last handler did: notifications emitted, calls
                 \* of resolve/reject, frame written, exception thrown
    codec,       \* a direct use of the framing codec of utils.ts: its
                 \* arguments, the buffer built and the result of decoding
    parser       \* a direct use of a payload parser of msg.ts: its arguments
                 \* and its result

vars == <<conencted, timeout, errorListeners, callbacks, promise, timer, deadline, written,
          nextId, now, last, codec, parser>>

\* the state of the session object
session == <<conencted, timeout, errorListeners, callbacks, promise, timer, deadline, written,
             nextId, now, last>>

Ids == 1..MaxRequests

NoPromise == [state |-> "none", code |-> Undef, value |-> <<>>, error |-> ""]

\* no apiVersion: the argument is left out of a call
NoApiVersion == <<>>

NoLast == [op |-> "init", buff |-> <<>>, code |-> Undef, id |-> 0, emits |-> <<>>,
           calls |-> <<>>, wrote |-> <<>>, threw |-> "", port |-> "",
           apiVersion |-> NoApiVersion]

\* the codec is not in use
NoCodec == [op |-> "idle", code |-> Undef, payload |-> <<>>, via |-> "", tamper |-> "",
            buff |-> <<>>, res |-> DecodeThrow]

\* no parser is in use
NoParser == [op |-> "idle", fn |-> "", data |-> <<>>, apiVersion |-> NoApiVersion,
             res |-> [status |-> "none", fields |-> <<>>, read |-> 0]]

Emit(type, code, error, msg) ==
    [type |-> type, code |-> code, error |-> error, msg |-> msg]

Call(id, fn) == [id |-> id, fn |-> fn]

\* the messages of the errors, without the code they name
UnsupportedError == "not supported by the flight controller"

TimeoutError == "Command timeout"

NotConnectedError == "Not connected"

\* resolve(value) / reject(error) of a promise: only the first call settles it
Resolve(p, value) ==
    IF p.state = "pending"
    THEN [p EXCEPT !.state = "resolved", !.value = value]
    ELSE p

Reject(p, error) ==
    IF p.state = "pending"
    THEN [p EXCEPT !.state = "rejected", !.error = error]
    ELSE p

Init ==
    /\ conencted = FALSE
    /\ timeout \in TimeoutOptions
    /\ errorListeners = <<>>
    /\ callbacks = <<>>
    /\ promise = [i \in Ids |-> NoPromise]
    /\ timer = [i \in Ids |-> "none"]
    /\ deadline = [i \in Ids |-> 0]
    /\ written = 0
    /\ nextId = 0
    /\ now = 0
    /\ last = NoLast
    /\ codec = NoCodec
    /\ parser = NoParser

\* ---------------------------------------------------------------- actions
onOpen ==
    /\ conencted' = TRUE
    /\ last' = [NoLast EXCEPT !.op = "onOpen",
                              !.emits = <<Emit("connect", Undef, "", NoMsg)>>]
    /\ UNCHANGED <<timeout, errorListeners, callbacks, promise, timer, deadline, written, nextId, now,
                   codec, parser>>

onCloseStaysConnected ==
    /\ last' = [NoLast EXCEPT !.op = "onClose",
                              !.emits = <<Emit("disconnect", Undef, "", NoMsg)>>]
    /\ UNCHANGED <<conencted, timeout, errorListeners, callbacks, promise, timer, deadline, written,
                   nextId, now, codec, parser>>

\* a close handler that also cancels what is pending
onCloseCancelsPending ==
    /\ conencted' = FALSE
    /\ callbacks' = <<>>
    /\ timer' = [i \in Ids |-> IF timer[i] = "armed" THEN "cleared" ELSE timer[i]]
    /\ deadline' = [i \in Ids |-> 0]
    /\ promise' = [i \in Ids |-> Reject(promise[i], NotConnectedError)]
    /\ last' = [NoLast EXCEPT !.op = "onClose",
                              !.emits = <<Emit("disconnect", Undef, "", NoMsg)>>]
    /\ UNCHANGED <<timeout, errorListeners, written, nextId, now, codec, parser>>

onClose ==
    /\ conencted' = FALSE
    /\ last' = [NoLast EXCEPT !.op = "onClose",
                              !.emits = <<Emit("disconnect", Undef, "", NoMsg)>>]
    /\ UNCHANGED <<timeout, errorListeners, callbacks, promise, timer, deadline, written, nextId, now,
                   codec, parser>>

\* on('error', listener), inherited from EventEmitter
\* (also addListener): the listener is added at the end of the list, whether
\* or not it is there already
on(event, listener) ==
    /\ event = "error"
    /\ Len(errorListeners) < MaxListeners
    /\ errorListeners' = Append(errorListeners, [listener |-> listener, once |-> FALSE])
    /\ last' = [NoLast EXCEPT !.op = "on"]
    /\ UNCHANGED <<conencted, timeout, callbacks, promise, timer, deadline,
                   written, nextId, now, codec, parser>>

\* once('error', listener), inherited from EventEmitter: the listener is
\* taken off the list by the first emit that calls it
once(event, listener) ==
    /\ event = "error"
    /\ Len(errorListeners) < MaxListeners
    /\ errorListeners' = Append(errorListeners, [listener |-> listener, once |-> TRUE])
    /\ last' = [NoLast EXCEPT !.op = "once"]
    /\ UNCHANGED <<conencted, timeout, callbacks, promise, timer, deadline,
                   written, nextId, now, codec, parser>>

\* prependListener('error', listener), inherited from EventEmitter: the
\* listener is added at the beginning of the list
prependListener(event, listener) ==
    /\ event = "error"
    /\ Len(errorListeners) < MaxListeners
    /\ errorListeners' = <<[listener |-> listener, once |-> FALSE]>> \o errorListeners
    /\ last' = [NoLast EXCEPT !.op = "prependListener"]
    /\ UNCHANGED <<conencted, timeout, callbacks, promise, timer, deadline,
                   written, nextId, now, codec, parser>>

\* prependOnceListener('error', listener), inherited from EventEmitter
prependOnceListener(event, listener) ==
    /\ event = "error"
    /\ Len(errorListeners) < MaxListeners
    /\ errorListeners' = <<[listener |-> listener, once |-> TRUE]>> \o errorListeners
    /\ last' = [NoLast EXCEPT !.op = "prependOnceListener"]
    /\ UNCHANGED <<conencted, timeout, callbacks, promise, timer, deadline,
                   written, nextId, now, codec, parser>>

\* the list without the instance of the listener that was added last
RECURSIVE removeLast(_, _, _)
removeLast(list, i, listener) ==
    IF i = 0 THEN list
    ELSE IF list[i].listener = listener
    THEN SubSeq(list, 1, i - 1) \o SubSeq(list, i + 1, Len(list))
    ELSE removeLast(list, i - 1, listener)

\* off('error', listener) (also removeListener), inherited from EventEmitter
off(event, listener) ==
    /\ event = "error"
    /\ errorListeners' = removeLast(errorListeners, Len(errorListeners), listener)
    /\ last' = [NoLast EXCEPT !.op = "off"]
    /\ UNCHANGED <<conencted, timeout, callbacks, promise, timer, deadline,
                   written, nextId, now, codec, parser>>

\* removeAllListeners('error'), inherited from EventEmitter
removeAllListeners(event) ==
    /\ event = "error"
    /\ errorListeners' = <<>>
    /\ last' = [NoLast EXCEPT !.op = "removeAllListeners"]
    /\ UNCHANGED <<conencted, timeout, callbacks, promise, timer, deadline,
                   written, nextId, now, codec, parser>>

\* emit('error', err) with no listener for 'error' throws err
emitErrorThrows == errorListeners = <<>>

\* the listeners for 'error' after an emit('error', err) that called them:
\* those registered by once are gone
RECURSIVE afterEmitError(_)
afterEmitError(list) ==
    IF list = <<>> THEN <<>>
    ELSE (IF Head(list).once THEN <<>> ELSE <<Head(list)>>) \o afterEmitError(Tail(list))

onError ==
    /\ last' = IF emitErrorThrows
               THEN [NoLast EXCEPT !.op = "onError", !.threw = "port"]
               ELSE [NoLast EXCEPT !.op = "onError",
                                   !.emits = <<Emit("error", Undef, "port", NoMsg)>>]
    /\ errorListeners' = afterEmitError(errorListeners)
    /\ UNCHANGED <<conencted, timeout, callbacks, promise, timer, deadline,
                   written, nextId, now, codec, parser>>

\* connect() and disconnect() hand the call to the port and touch nothing of
\* the session; the port answers later with its 'open' or 'close' event
connect ==
    /\ last' = [NoLast EXCEPT !.op = "connect", !.port = "open"]
    /\ UNCHANGED <<conencted, timeout, errorListeners, callbacks, promise, timer, deadline,
                   written, nextId, now, codec, parser>>

disconnect ==
    /\ last' = [NoLast EXCEPT !.op = "disconnect", !.port = "close"]
    /\ UNCHANGED <<conencted, timeout, errorListeners, callbacks, promise, timer, deadline,
                   written, nextId, now, codec, parser>>

notConnectedNever == FALSE

\* if (!this.conencted) throw new Error('Not connected')
notConnected == ~conencted

sendMessage(code, payload) ==
    /\ nextId < MaxRequests
    /\ now + timeout <= MaxTime
    /\ LET id == nextId + 1 IN
       /\ nextId' = id
       /\ IF notConnected
          THEN /\ promise' = [promise EXCEPT ![id] =
                     [NoPromise EXCEPT !.state = "rejected", !.code = code,
                                       !.error = NotConnectedError]]
               /\ last' = [NoLast EXCEPT !.op = "sendMessage", !.code = code, !.id = id,
                                         !.threw = NotConnectedError]
               /\ UNCHANGED <<callbacks, timer, deadline, written>>
          ELSE /\ written' = written + 1
               /\ callbacks' = Append(callbacks, [code |-> code, id |-> id])
               /\ timer' = [timer EXCEPT ![id] = "armed"]
               /\ deadline' = [deadline EXCEPT ![id] = now + timeout]
               /\ promise' = [promise EXCEPT ![id] =
                     [NoPromise EXCEPT !.state = "pending", !.code = code]]
               /\ last' = [NoLast EXCEPT !.op = "sendMessage", !.code = code, !.id = id,
                                         !.wrote = encodeMessage(code, payload)]
    /\ UNCHANGED <<conencted, timeout, errorListeners, now, codec, parser>>

\* the callback given to setTimeout in sendMessage
timerExpire(id) ==
    /\ timer[id] = "armed"
    /\ now >= deadline[id]
    /\ timer' = [timer EXCEPT ![id] = "fired"]
    /\ deadline' = [deadline EXCEPT ![id] = 0]
    /\ promise' = [promise EXCEPT ![id] = Reject(@, TimeoutError)]
    /\ last' = [NoLast EXCEPT !.op = "timerExpire", !.code = promise[id].code, !.id = id,
                              !.calls = <<Call(id, "reject")>>]
    /\ UNCHANGED <<conencted, timeout, errorListeners, callbacks, written, nextId, now, codec, parser>>

\* the loop stopping at the first entry it matches
RECURSIVE matchesOnce(_, _, _)
matchesOnce(cbs, i, code) ==
    IF i = 0 THEN <<>>
    ELSE IF cbs[i].code = code THEN <<i>>
    ELSE matchesOnce(cbs, i - 1, code)

\* positions of callbacks that the loop of onData visits and matches, in
\* the order it visits them (from the end of the list)
RECURSIVE matchesFrom(_, _, _)
matchesFrom(cbs, i, code) ==
    IF i = 0 THEN <<>>
    ELSE (IF cbs[i].code = code THEN <<i>> ELSE <<>>) \o matchesFrom(cbs, i - 1, code)

keepMatching(cbs, code) == cbs

dropEvery(cbs, code) == <<>>

\* this.callbacks after the loop spliced every matching entry out
RECURSIVE removeMatching(_, _)
removeMatching(cbs, code) ==
    IF cbs = <<>> THEN <<>>
    ELSE (IF Head(cbs).code = code THEN <<>> ELSE <<Head(cbs)>>)
         \o removeMatching(Tail(cbs), code)

clearNoTimeout(ids) == timer

\* clearTimeout(callback.timeout) for the matched entries
clearTimeouts(ids) ==
    [i \in Ids |-> IF i \in ids /\ timer[i] = "armed" THEN "cleared" ELSE timer[i]]

\* res.success ? callback.resolve(buffToDataView(res.payload))
\*             : callback.reject(res.error)
settle(p, res) ==
    IF res.success THEN Resolve(p, res.payload)
    ELSE Reject(p, UnsupportedError)

processEventsUnsolicitedOnly(res, m) ==
    IF \E k \in 1..Len(callbacks) : callbacks[k].code = res.code THEN <<>>
    ELSE IF ~res.success
    THEN <<Emit("error", res.code, UnsupportedError, NoMsg)>>
    ELSE <<Emit("message", res.code, "", m.msg)>>

\* the "Process events" part of onData, for a parseMsg that returned
processEvents(res, m) ==
    IF ~res.success
    THEN <<Emit("error", res.code, UnsupportedError, NoMsg)>>
    ELSE <<Emit("message", res.code, "", m.msg)>>

\* the apiVersion argument of the call parseMsg(res.code, res.payload) that
\* onData makes: there is none
parseMsgApiVersion == NoApiVersion

\* the "Process callbacks" part of onData
processCallbacks(res, emits, buff) ==
    LET hit == matchesFrom(callbacks, Len(callbacks), res.code)
        ids == {callbacks[hit[k]].id : k \in 1..Len(hit)}
    IN  /\ callbacks' = removeMatching(callbacks, res.code)
        /\ timer' = clearTimeouts(ids)
        /\ deadline' = [i \in Ids |-> IF timer'[i] = "armed" THEN deadline[i] ELSE 0]
        /\ promise' = [i \in Ids |->
                        IF i \in ids THEN settle(promise[i], res) ELSE promise[i]]
        /\ last' = [NoLast EXCEPT
                      !.op = "onData", !.buff = buff, !.code = res.code, !.emits = emits,
                      !.apiVersion = parseMsgApiVersion,
                      !.calls = [k \in 1..Len(hit) |->
                                   Call(callbacks[hit[k]].id,
                                        IF res.success THEN "resolve" ELSE "reject")]]

\* an exception leaves onData: nothing is emitted, the callbacks are not visited
onDataThrow(what, buff, code) ==
    /\ last' = [NoLast EXCEPT !.op = "onData", !.buff = buff, !.code = code,
                              !.threw = what]
    /\ UNCHANGED <<callbacks, timer, deadline, promise>>

\* onData does not look at this.conencted
onData(buff) ==
    /\ LET res == decodeMessage(buff) IN
       IF res.thrown THEN onDataThrow("RangeError", buff, Undef)
       ELSE LET m == IF res.success THEN parseMsg(res.code, res.payload)
                     ELSE parseMsgResult("ok", NoMsg)
            IN  IF m.status # "ok" THEN onDataThrow(m.status, buff, res.code)
                ELSE IF ~res.success /\ emitErrorThrows
                THEN onDataThrow(UnsupportedError, buff, res.code)
                ELSE processCallbacks(res, processEvents(res, m), buff)
    /\ LET res == decodeMessage(buff) IN
       errorListeners' = IF ~res.thrown /\ ~res.success
                         THEN afterEmitError(errorListeners)
                         ELSE errorListeners
    /\ UNCHANGED <<conencted, timeout, written, nextId, now, codec, parser>>

\* time passes, but not beyond the expiry of an armed timer
armedDeadlines == {deadline[i] : i \in {j \in Ids : timer[j] = "armed"}}

advance ==
    /\ now < MaxTime
    /\ \A d \in armedDeadlines : d > now
    /\ LET target == Min(now + TickMs, MaxTime)
           next == IF \E d \in armedDeadlines : d < target
                   THEN CHOOSE d \in armedDeadlines :
                            \A e \in armedDeadlines : d <= e
                   ELSE target
       IN  now' = next
    /\ last' = [NoLast EXCEPT !.op = "advance"]
    /\ UNCHANGED <<conencted, timeout, errorListeners, callbacks, promise, timer, deadline,
                   written, nextId, codec, parser>>

Next ==
    \/ onOpen
    \/ onClose
    \/ onError
    \/ \E listener \in Listeners : on("error", listener)
    \/ \E listener \in Listeners : off("error", listener)
    \/ removeAllListeners("error")
    \/ connect
    \/ disconnect
    \/ \E code \in RequestCodes, payload \in RequestPayloads : sendMessage(code, payload)
    \/ \E id \in Ids : timerExpire(id)
    \/ \E buff \in InboundChunks : onData(buff)
    \/ advance

Spec == Init /\ [][Next]_vars

\* ------------------------------------------- a session and its listeners
\* The session with every function of EventEmitter that changes the
\* listeners for 'error', one request code of each protocol version and the
\* frames that answer it.
ListenerCodes == {MSP_NAME, MSP2_SET_TEXT}

ListenerChunks ==
    { deviceFrame(FROM_MWC, MSP_NAME, <<65, 66>>),
      deviceFrame(UNSUPPORTED, MSP_NAME, <<>>),
      deviceFrame(UNSUPPORTED, MSP2_SET_TEXT, <<>>) }

ListenerNext ==
    \/ onOpen
    \/ onClose
    \/ onError
    \/ \E listener \in Listeners : on("error", listener)
    \/ \E listener \in Listeners : once("error", listener)
    \/ \E listener \in Listeners : prependListener("error", listener)
    \/ \E listener \in Listeners : prependOnceListener("error", listener)
    \/ \E listener \in Listeners : off("error", listener)
    \/ removeAllListeners("error")
    \/ \E code \in ListenerCodes, payload \in RequestPayloads : sendMessage(code, payload)
    \/ \E id \in Ids : timerExpire(id)
    \/ \E buff \in ListenerChunks : onData(buff)
    \/ advance

ListenerSpec == Init /\ [][ListenerNext]_vars

\* The session when time keeps passing and the event loop runs the callback
\* of every timer that has expired
FairSpec ==
    /\ Spec
    /\ WF_vars(advance)
    /\ \A id \in Ids : WF_vars(timerExpire(id))

\* ------------------------------------------------- the codec used directly
\* encodeMessage, encodeMessageV2, decodeMessage and decodeMessageV2 are
\* exported by utils.ts and called on their own, as the tests of
\* utils.test.ts do.  A use takes a code and a payload, builds the frame,
\* optionally alters it the way a device or a noisy line does, and decodes it.
CodecCodes == {0, 1, 2, 254, 255, 256, 512, 65535}

CodecBytes == {1, 2, 3, 255}

\* the longest payload a V1 frame can announce, and one byte more
V1MaxPayload == [i \in 1..255 |-> 1]

OverlongPayload == [i \in 1..256 |-> 1]

CodecPayloads ==
    UNION {[1..n -> CodecBytes] : n \in 0..MaxPayloadLen}
        \cup {V1MaxPayload, OverlongPayload}

TamperKinds == {"unsupported", "checksum", "truncated"}

\* what reaches decodeMessage instead of the frame that was built: the frame
\* answered with the '!' marker, the frame with another checksum byte, the
\* frame cut two bytes short
tamperBuff(buff, kind) ==
    CASE kind = "unsupported" -> [buff EXCEPT ![3] = UNSUPPORTED]
      [] kind = "checksum" -> corruptChecksum(buff)
      [] kind = "truncated" -> SubSeq(buff, 1, Len(buff) - 2)

CodecInit ==
    /\ conencted = FALSE
    /\ timeout \in TimeoutOptions
    /\ errorListeners = <<>>
    /\ callbacks = <<>>
    /\ promise = [i \in Ids |-> NoPromise]
    /\ timer = [i \in Ids |-> "none"]
    /\ deadline = [i \in Ids |-> 0]
    /\ written = 0
    /\ nextId = 0
    /\ now = 0
    /\ last = NoLast
    /\ codec \in {[NoCodec EXCEPT !.op = "args", !.code = c, !.payload = p] :
                     c \in CodecCodes, p \in CodecPayloads}
    /\ parser = NoParser

applyEncodeMessage ==
    /\ codec.op = "args"
    /\ codec' = [codec EXCEPT !.op = "encoded", !.via = "encodeMessage",
                              !.buff = encodeMessage(codec.code, codec.payload)]
    /\ UNCHANGED <<session, parser>>

applyEncodeMessageV2 ==
    /\ codec.op = "args"
    /\ codec' = [codec EXCEPT !.op = "encoded", !.via = "encodeMessageV2",
                              !.buff = encodeMessageV2(codec.code, codec.payload)]
    /\ UNCHANGED <<session, parser>>

tamper(kind) ==
    /\ codec.op = "encoded"
    /\ codec.tamper = ""
    /\ codec' = [codec EXCEPT !.tamper = kind, !.buff = tamperBuff(codec.buff, kind)]
    /\ UNCHANGED <<session, parser>>

\* only the first n bytes of the frame reach decodeMessage, for every n
\* short of the whole frame
cut(n) ==
    /\ codec.op = "encoded"
    /\ codec.tamper = ""
    /\ n < Len(codec.buff)
    /\ codec' = [codec EXCEPT !.tamper = "cut", !.buff = SubSeq(codec.buff, 1, n)]
    /\ UNCHANGED <<session, parser>>

applyDecodeMessage ==
    /\ codec.op = "encoded"
    /\ codec' = [codec EXCEPT !.op = "decodeMessage", !.res = decodeMessage(codec.buff)]
    /\ UNCHANGED <<session, parser>>

applyDecodeMessageV2 ==
    /\ codec.op = "encoded"
    /\ codec' = [codec EXCEPT !.op = "decodeMessageV2",
                              !.res = decodeMessageV2(codec.buff)]
    /\ UNCHANGED <<session, parser>>

CodecNext ==
    \/ applyEncodeMessage
    \/ applyEncodeMessageV2
    \/ \E kind \in TamperKinds : tamper(kind)
    \/ \E n \in 0..(Len(codec.buff) - 1) : cut(n)
    \/ applyDecodeMessage
    \/ applyDecodeMessageV2

CodecSpec == CodecInit /\ [][CodecNext]_vars

\* ------------------------------------- payload parsers and payload builders
\* The parsers of msg.ts are exported and take the payload as a BuffDataView
\* and, where fields depend on it, the API version of the flight controller.

API_VERSION_1_41 == <<49, 46, 52, 49, 46, 48>>

API_VERSION_1_42 == <<49, 46, 52, 50, 46, 48>>

API_VERSION_1_43 == <<49, 46, 52, 51, 46, 48>>

API_VERSION_1_45 == <<49, 46, 52, 53, 46, 48>>

\* the number a run of decimal digits denotes
RECURSIVE NumOf(_, _)
NumOf(chars, acc) ==
    IF chars = <<>> THEN acc
    ELSE NumOf(Tail(chars), 10 * acc + (Head(chars) - 48))

\* the parts of a string between its dots
RECURSIVE SplitDots(_, _)
SplitDots(chars, cur) ==
    IF chars = <<>> THEN <<cur>>
    ELSE IF Head(chars) = 46 THEN <<cur>> \o SplitDots(Tail(chars), <<>>)
    ELSE SplitDots(Tail(chars), Append(cur, Head(chars)))

\* major, minor and patch of "major.minor.patch"
semverParse(version) ==
    LET parts == SplitDots(version, <<>>)
    IN  <<NumOf(parts[1], 0), NumOf(parts[2], 0), NumOf(parts[3], 0)>>

semverGt(a, b) ==
    LET x == semverParse(a)
        y == semverParse(b)
    IN  \/ x[1] > y[1]
        \/ x[1] = y[1] /\ x[2] > y[2]
        \/ x[1] = y[1] /\ x[2] = y[2] /\ x[3] > y[3]

\* semver.gte(a, b)
semverGte(a, b) ==
    LET x == semverParse(a)
        y == semverParse(b)
    IN  \/ x[1] > y[1]
        \/ x[1] = y[1] /\ x[2] > y[2]
        \/ x[1] = y[1] /\ x[2] = y[2] /\ x[3] >= y[3]

\* apiVersion && semver.gte(apiVersion, since)
gated(apiVersion, since) ==
    apiVersion # NoApiVersion /\ semverGte(apiVersion, since)

\* buffToDataView(buff): the reads advance offset; a read past the end of
\* the buffer throws a RangeError (threw); vals are the values read so far,
\* each a sequence: <<n>> for a number, the character codes for a text
buffToDataView(buff) == [buff |-> buff, offset |-> 0, threw |-> FALSE, vals |-> <<>>]

readU8(v) ==
    IF v.threw \/ v.offset + 1 > Len(v.buff) THEN [v EXCEPT !.threw = TRUE]
    ELSE [v EXCEPT !.offset = @ + 1, !.vals = Append(@, <<v.buff[v.offset + 1]>>)]

readU16(v) ==
    IF v.threw \/ v.offset + 2 > Len(v.buff) THEN [v EXCEPT !.threw = TRUE]
    ELSE [v EXCEPT !.offset = @ + 2,
                   !.vals = Append(@, <<v.buff[v.offset + 1] + 256 * v.buff[v.offset + 2]>>)]

readU32(v) ==
    IF v.threw \/ v.offset + 4 > Len(v.buff) THEN [v EXCEPT !.threw = TRUE]
    ELSE [v EXCEPT !.offset = @ + 4,
                   !.vals = Append(@, <<v.buff[v.offset + 1] + 256 * v.buff[v.offset + 2]
                                        + 65536 * v.buff[v.offset + 3]
                                        + 16777216 * v.buff[v.offset + 4]>>)]

\* a loop of n calls of readU8 gathering chars; a call that throws ends the
\* loop with the view advanced by the calls that succeeded before it
RECURSIVE readCharsLoop(_, _, _)
readCharsLoop(v, n, chars) ==
    IF n <= 0 THEN [v EXCEPT !.vals = Append(@, chars)]
    ELSE LET w == readU8(v)
         IN  IF w.threw THEN w
             ELSE readCharsLoop([w EXCEPT !.vals = v.vals], n - 1,
                                Append(chars, w.vals[Len(w.vals)][1]))

\* n calls of readU8 whose results are gathered into one value
readChars(v, n) == readCharsLoop(v, n, <<>>)

\* readText(): a size byte, then that many calls of readU8
readText(v) ==
    LET s == readU8(v)
    IN  IF s.threw THEN s
        ELSE readChars([s EXCEPT !.vals = v.vals], s.vals[Len(s.vals)][1])

Bool(key, b) == [key |-> key, kind |-> "bool", val |-> <<IF b THEN 1 ELSE 0>>]

\* Result of a parser that was given a view: the fields returned and the
\* offset the view was left at, or the RangeError of a read past the end
Parsed(fields, v) == [status |-> "ok", fields |-> fields, read |-> v.offset]

ParseThrew(v) == [status |-> "RangeError", fields |-> <<>>, read |-> v.offset]

SIGNATURE_LENGTH == 32

parseBoardInfo(data, apiVersion) ==
    LET since42 == gated(apiVersion, API_VERSION_1_42)
        since43 == gated(apiVersion, API_VERSION_1_43)
        a == readChars(buffToDataView(data), 4)
        b == readU16(a)
        c == readU8(b)
        d == readU8(c)
        e == readText(d)
        f == readText(e)
        g == readText(f)
        h == readChars(g, SIGNATURE_LENGTH)
        i == readU8(h)
        j == IF since42 THEN readU8(i) ELSE i
        k == IF since43 THEN readU32(readU16(j)) ELSE j
        n == Len(j.vals)
    IN  IF k.threw THEN ParseThrew(k)
        ELSE Parsed(<<Str("boardIdentifier", k.vals[1]),
                      Num("boardVersion", k.vals[2][1]),
                      Num("boardType", k.vals[3][1]),
                      Num("targetCapabilities", k.vals[4][1]),
                      Str("targetName", k.vals[5]),
                      Str("boardName", k.vals[6]),
                      Str("manufacturerId", k.vals[7]),
                      Arr("signature", k.vals[8]),
                      Num("mcuTypeId", k.vals[9][1])>>
                    \o (IF since42 THEN <<Num("configurationState", k.vals[10][1])>>
                        ELSE <<>>)
                    \o (IF since43
                        THEN <<Num("sampleRateHz", k.vals[n + 1][1]),
                               Num("configurationProblems", k.vals[n + 2][1])>>
                        ELSE <<Num("configurationProblems", 0)>>),
                    k)

parseMotorConfig(data, apiVersion) ==
    LET since42 == gated(apiVersion, API_VERSION_1_42)
        a == readU16(readU16(readU16(buffToDataView(data))))
        b == readU8(readU8(readU8(readU8(a))))
        c == IF since42 THEN readU8(readU8(readU8(readU8(b)))) ELSE b
        n == Len(c.vals)
    IN  IF c.threw THEN ParseThrew(c)
        ELSE Parsed(<<Num("minthrottle", c.vals[1][1]),
                      Num("maxthrottle", c.vals[2][1]),
                      Num("mincommand", c.vals[3][1]),
                      Num("motorCount", c.vals[n - 3][1]),
                      Num("motorPoles", c.vals[n - 2][1]),
                      Bool("useDshotTelemetry", c.vals[n - 1][1] # 0),
                      Bool("useEscSensor", c.vals[n][1] # 0)>>,
                    c)

\* for (let i = 0; i < data.length() / 2; i++) push(data.readU16())
RECURSIVE readU16Records(_, _)
readU16Records(v, i) ==
    IF v.threw \/ 2 * i >= Len(v.buff) THEN v
    ELSE readU16Records(readU16(v), i + 1)

\* the numbers read, as one array
RECURSIVE Numbers(_)
Numbers(vals) == IF vals = <<>> THEN <<>> ELSE vals[1] \o Numbers(Tail(vals))

parseServo(data) ==
    LET v == readU16Records(buffToDataView(data), 0)
    IN  IF v.threw THEN ParseThrew(v) ELSE Parsed(<<Arr("servo", Numbers(v.vals))>>, v)

parseRC(data) ==
    LET v == readU16Records(buffToDataView(data), 0)
    IN  IF v.threw THEN ParseThrew(v) ELSE Parsed(<<Arr("channels", Numbers(v.vals))>>, v)

\* for (let i = 0; i < data.length() / 2; i++) { id: readU8(), voltage: readU8() / 10.0 }
RECURSIVE readVoltageMeters(_, _)
readVoltageMeters(v, i) ==
    IF v.threw \/ 2 * i >= Len(v.buff) THEN v
    ELSE readVoltageMeters(readU8(readU8(v)), i + 1)

\* the records {id, voltage} of the values read; a voltage n / 10.0 is kept
\* as its whole volts and its tenths
RECURSIVE VoltageMeters(_)
VoltageMeters(vals) ==
    IF vals = <<>> THEN <<>>
    ELSE <<[id |-> vals[1][1], voltage |-> <<vals[2][1] \div 10, vals[2][1] % 10>>]>>
             \o VoltageMeters(Tail(Tail(vals)))

parseVoltageMeters(data) ==
    LET v == readVoltageMeters(buffToDataView(data), 0)
    IN  IF v.threw THEN ParseThrew(v)
        ELSE Parsed(<<Arr("voltageMeters", VoltageMeters(v.vals))>>, v)

\* push16(arr, val): arr.push(0x00ff & val); arr.push(val >> 8).  An
\* undefined val gives 0 for both
push16(arr, val) ==
    IF val = Undef THEN arr \o <<0, 0>>
    ELSE arr \o <<val % 256, val \div 256>>

\* Buffer.from(number[]): each number is stored & 255
BufferFrom(arr) == [i \in 1..Len(arr) |-> arr[i] % 256]

\* the loop of setMotor, i running from 0: buffer = push16(buffer, motor[1])
RECURSIVE setMotorBuffer(_, _, _)
setMotorBuffer(motor, i, buffer) ==
    IF i >= Len(motor) THEN buffer
    ELSE setMotorBuffer(motor, i + 1, push16(buffer, At(motor, 1)))

\* setMotor(motor): builds the buffer, then
\* await this.sendMessage(MSPCodes.MSP_SET_MOTOR, Buffer.from(buffer)) in the
\* same step
setMotor(motor) ==
    LET buffer == setMotorBuffer(motor, 0, <<>>)
    IN  sendMessage(MSP_SET_MOTOR, BufferFrom(buffer))

MotorValues == {1000, 1500, 2000}

MotorLists == UNION {[1..n -> MotorValues] : n \in 0..MaxMotors}

\* ------------------------------------------------- a session setting motors
MotorNext ==
    \/ onOpen
    \/ onClose
    \/ \E motor \in MotorLists : setMotor(motor)
    \/ onData(deviceFrame(FROM_MWC, MSP_SET_MOTOR, <<>>))
    \/ \E id \in Ids : timerExpire(id)
    \/ advance

MotorSpec == Init /\ [][MotorNext]_vars

\* ------------------------------------------------ the parsers used directly
\* A use takes a payload and an API version and runs one parser on them.
BoardInfoPayload ==
    <<65, 70, 78, 65, 3, 0, 1, 21, 1, 78, 0, 2, 65, 66>>
        \o [i \in 1..SIGNATURE_LENGTH |-> i] \o <<2>>

MotorConfigPayload == <<46, 4, 208, 7, 232, 3, 4, 14, 1, 0>>

ParserPayloads ==
    UNION {[1..n -> CodecBytes] : n \in 0..MaxPayloadLen}
        \cup { BoardInfoPayload,
               BoardInfoPayload \o <<1>>,
               BoardInfoPayload \o <<1, 232, 3, 5, 0, 0, 0>>,
               MotorConfigPayload,
               MotorConfigPayload \o <<8, 12, 0, 1>> }

ApiVersions ==
    {NoApiVersion, API_VERSION_1_41, API_VERSION_1_42, API_VERSION_1_43, API_VERSION_1_45}

ParserInit ==
    /\ conencted = FALSE
    /\ timeout \in TimeoutOptions
    /\ errorListeners = <<>>
    /\ callbacks = <<>>
    /\ promise = [i \in Ids |-> NoPromise]
    /\ timer = [i \in Ids |-> "none"]
    /\ deadline = [i \in Ids |-> 0]
    /\ written = 0
    /\ nextId = 0
    /\ now = 0
    /\ last = NoLast
    /\ codec = NoCodec
    /\ parser \in {[NoParser EXCEPT !.op = "payload", !.data = d, !.apiVersion = a] :
                      d \in ParserPayloads, a \in ApiVersions}

applyParseBoardInfo ==
    /\ parser.op = "payload"
    /\ parser' = [parser EXCEPT !.op = "parsed", !.fn = "parseBoardInfo",
                                !.res = parseBoardInfo(parser.data, parser.apiVersion)]
    /\ UNCHANGED <<session, codec>>

applyParseMotorConfig ==
    /\ parser.op = "payload"
    /\ parser' = [parser EXCEPT !.op = "parsed", !.fn = "parseMotorConfig",
                                !.res = parseMotorConfig(parser.data, parser.apiVersion)]
    /\ UNCHANGED <<session, codec>>

applyParseMotor ==
    /\ parser.op = "payload"
    /\ parser' = [parser EXCEPT !.op = "parsed", !.fn = "parseMotor",
                                !.res = parseMotor(parser.data)]
    /\ UNCHANGED <<session, codec>>

applyParseServo ==
    /\ parser.op = "payload"
    /\ parser' = [parser EXCEPT !.op = "parsed", !.fn = "parseServo",
                                !.res = parseServo(parser.data)]
    /\ UNCHANGED <<session, codec>>

applyParseRC ==
    /\ parser.op = "payload"
    /\ parser' = [parser EXCEPT !.op = "parsed", !.fn = "parseRC",
                                !.res = parseRC(parser.data)]
    /\ UNCHANGED <<session, codec>>

applyParseVoltageMeters ==
    /\ parser.op = "payload"
    /\ parser' = [parser EXCEPT !.op = "parsed", !.fn = "parseVoltageMeters",
                                !.res = parseVoltageMeters(parser.data)]
    /\ UNCHANGED <<session, codec>>

ParserNext ==
    \/ applyParseBoardInfo
    \/ applyParseMotorConfig
    \/ applyParseMotor
    \/ applyParseServo
    \/ applyParseRC
    \/ applyParseVoltageMeters

ParserSpec == ParserInit /\ [][ParserNext]_vars

\* ------------------------------------------------------------- properties
\* The notifications are recorded as emitted: the client is taken to listen
\* to 'connect', 'disconnect', 'message' and 'error'.

InCallbacks(cbs, i) == \E k \in 1..Len(cbs) : cbs[k].id = i

HasCode(cbs, code) == \E k \in 1..Len(cbs) : cbs[k].code = code

Called(i) == \E k \in 1..Len(last.calls) : last.calls[k].id = i

\* the step is a run of onData on last'.buff that returned normally
OnDataStep == last'.op = "onData" /\ last'.threw = ""

LastRes == decodeMessage(last.buff)

TypeOK ==
    /\ conencted \in BOOLEAN
    /\ timeout \in TimeoutOptions
    /\ Len(errorListeners) <= MaxListeners
    /\ \A k \in 1..Len(errorListeners) :
          errorListeners[k] \in [listener : Listeners, once : BOOLEAN]
    /\ nextId \in 0..MaxRequests
    /\ written \in 0..MaxRequests
    /\ now \in 0..MaxTime
    /\ Len(callbacks) <= MaxRequests
    /\ \A k \in 1..Len(callbacks) : callbacks[k].id \in 1..nextId
    /\ \A i \in Ids : timer[i] \in {"none", "armed", "cleared", "fired"}
    /\ \A i \in Ids : promise[i].state \in {"none", "pending", "resolved", "rejected"}

\* C1: when onData decodes a frame and a pending entry with the frame's code
\* exists whose request is still unsettled, the request is resolved with the
\* frame's payload and the entry leaves the pending list; a frame for whose
\* code no entry is in the list (the second identical frame) is emitted as
\* one 'message' and calls neither resolve nor reject.
C1_Step ==
    /\ \A i \in Ids :
        ( /\ OnDataStep
          /\ decodeMessage(last'.buff).success
          /\ InCallbacks(callbacks, i)
          /\ promise[i].code = last'.code
          /\ promise[i].state = "pending" )
        => /\ promise'[i].state = "resolved"
           /\ promise'[i].value = decodeMessage(last'.buff).payload
           /\ ~InCallbacks(callbacks', i)
    /\ ( /\ OnDataStep
         /\ decodeMessage(last'.buff).success
         /\ ~HasCode(callbacks, last'.code) )
       => /\ last'.calls = <<>>
          /\ promise' = promise
          /\ callbacks' = callbacks
          /\ Len(last'.emits) = 1
          /\ last'.emits[1].type = "message"

C1_MatchResolvesOnce == [][C1_Step]_vars

\* a second frame for a code whose request was already resolved
C1_Witness ==
    /\ last.op = "onData"
    /\ last.calls = <<>>
    /\ Len(last.emits) = 1
    /\ last.emits[1].type = "message"
    /\ \E i \in Ids : /\ promise[i].state = "resolved"
                      /\ promise[i].code = last.code
                      /\ promise[i].value = LastRes.payload
                      /\ ~InCallbacks(callbacks, i)

\* C2 (as claimed): when a request's timer has expired, the request is
\* rejected with the timeout error for its code and its entry is no longer
\* in the pending list.
C2_TimeoutRemovesEntry ==
    last.op = "timerExpire"
    => /\ promise[last.id].state = "rejected"
       /\ promise[last.id].error = TimeoutError
       /\ promise[last.id].code = last.code
       /\ ~InCallbacks(callbacks, last.id)

\* C3: a settled request never changes its outcome; a request resolved by a
\* frame has its timer cleared (the timeout can no longer fire for it), and
\* a request rejected by timeout is one whose timer fired; every request
\* with an armed timer is still unsettled.
C3_Step ==
    \A i \in Ids :
        /\ promise[i].state \in {"resolved", "rejected"} => promise'[i] = promise[i]
        /\ promise'[i].state = "resolved" => timer'[i] = "cleared"
        /\ (promise'[i].state = "rejected" /\ promise'[i].error = TimeoutError)
           => timer'[i] = "fired"
        /\ timer'[i] = "armed" => promise'[i].state = "pending"
        /\ promise[i].state = "pending"
           => \/ promise'[i].state = "pending"
              \/ promise'[i].state = "resolved" /\ last'.op = "onData"
              \/ promise'[i].state = "rejected" /\ last'.op \in {"onData", "timerExpire"}

C3_ExactlyOneOutcome == [][C3_Step]_vars

\* the frame and the timeout meet: onData has called resolve for an entry
\* whose timer had already fired, and the outcome is still the timeout
C3_Witness ==
    /\ last.op = "onData"
    /\ \E i \in Ids : /\ Called(i)
                      /\ timer[i] = "fired"
                      /\ promise[i].state = "rejected"
                      /\ promise[i].error = TimeoutError

\* C4 (as claimed): a frame that arrives for the code of a timed-out request
\* is emitted as 'message', matches no entry of the pending list, and the
\* request's outcome stays the timeout.
C4_LateFrameUnsolicited ==
    \A i \in Ids :
        ( /\ last.op = "onData"
          /\ last.threw = ""
          /\ LastRes.success
          /\ promise[i].code = last.code
          /\ promise[i].state = "rejected"
          /\ promise[i].error = TimeoutError )
        => /\ last.emits[1].type = "message"
           /\ ~Called(i)

\* C5: sendMessage on a disconnected session rejects with 'Not connected',
\* writes nothing, starts no timer and leaves the pending list unchanged.
C5_Step ==
    (last'.op = "sendMessage" /\ nextId' = nextId + 1 /\ ~conencted)
    => /\ promise'[nextId'].state = "rejected"
       /\ promise'[nextId'].error = NotConnectedError
       /\ last'.threw = NotConnectedError
       /\ last'.wrote = <<>>
       /\ written' = written
       /\ timer' = timer
       /\ callbacks' = callbacks

C5_NotConnectedFailsFast == [][C5_Step]_vars

\* a request refused after a close, while an earlier one is still pending
C5_Witness ==
    /\ last.op = "sendMessage"
    /\ last.threw = NotConnectedError
    /\ ~conencted
    /\ written = 1
    /\ Len(callbacks) = 1
    /\ timer[last.id] = "none"

\* C6: a frame with the unsupported marker rejects the unsettled request of
\* every pending entry with the frame's code with the unsupported error,
\* whether or not the 'error' notification has a listener.
C6_Step ==
    \A i \in Ids :
        ( /\ last'.op = "onData"
          /\ ~decodeMessage(last'.buff).success
          /\ At(last'.buff, 2) = UNSUPPORTED
          /\ InCallbacks(callbacks, i)
          /\ promise[i].code = last'.code
          /\ promise[i].state = "pending" )
        => /\ promise'[i].state = "rejected"
           /\ promise'[i].error = UnsupportedError
           /\ promise'[i].code = decodeMessage(last'.buff).code

C6_UnsupportedRejects == [][C6_Step]_vars

\* a V1 or V2 frame whose length field matches the bytes it carries
WellFormed(buff) ==
    LET res == decodeMessage(buff)
    IN  /\ ~res.thrown
        /\ res.code # Undef
        /\ res.success => Len(res.payload) = res.len
        /\ Len(buff) = (IF At(buff, 1) = PROTO_V1 THEN 6 ELSE 9)
                       + (IF res.success THEN res.len ELSE 0)

\* C7 (as claimed): a well-formed frame whose code has no schema makes
\* onData return normally, emit an 'error' notification, and reject and
\* remove the pending entry for that code.
C7_UnknownCodeRecoverable ==
    ( /\ last.op = "onData"
      /\ WellFormed(last.buff)
      /\ LastRes.success
      /\ LastRes.code \notin ParseMsgCases )
    => /\ last.threw = ""
       /\ Len(last.emits) = 1
       /\ last.emits[1].type = "error"
       /\ ~HasCode(callbacks, LastRes.code)
       /\ \A i \in Ids : Called(i) => promise[i].state = "rejected"

\* C8: whenever onData decodes a frame and parseMsg returns its message, that
\* message is emitted as exactly one 'message' notification, whether or not
\* the frame also settles pending requests.
C8_MessageAlwaysPublished ==
    ( /\ last.op = "onData"
      /\ ~LastRes.thrown
      /\ LastRes.success
      /\ parseMsg(LastRes.code, LastRes.payload).status = "ok" )
    => last.emits = <<Emit("message", LastRes.code, "",
                           parseMsg(LastRes.code, LastRes.payload).msg)>>

\* the frame that resolved a request was also published
C8_Witness ==
    /\ last.op = "onData"
    /\ Len(last.emits) = 1
    /\ last.emits[1].type = "message"
    /\ last.emits[1].msg.name = "MSP_NAME"
    /\ \E i \in Ids : Called(i) /\ promise[i].state = "resolved"

\* the step rejects request i by an unsupported frame or by its timeout
RejectedBy(i) ==
    /\ promise[i].state = "pending"
    /\ promise'[i].state = "rejected"
    /\ promise'[i].error \in {UnsupportedError, TimeoutError}

Untouched(j) ==
    /\ InCallbacks(callbacks', j)
    /\ timer'[j] = timer[j]
    /\ deadline'[j] = deadline[j]
    /\ promise'[j] = promise[j]

\* C9 (as claimed): rejecting one request leaves the session connected and
\* every other pending entry in the list, timer and outcome untouched.
C9_OrigStep ==
    \A i \in Ids :
        RejectedBy(i)
        => /\ conencted' = conencted
           /\ \A j \in Ids \ {i} : InCallbacks(callbacks, j) => Untouched(j)

C9_RejectionIsolated == [][C9_OrigStep]_vars

\* C9 (amended): a timeout touches no other entry; an unsupported frame
\* touches no entry whose code differs from the frame's; the session stays
\* as connected as it was, and every unsettled request keeps an armed timer.
C9_AmendedStep ==
    /\ \A i \in Ids :
        RejectedBy(i)
        => /\ conencted' = conencted
           /\ \A j \in Ids \ {i} :
                ( /\ InCallbacks(callbacks, j)
                  /\ \/ last'.op = "timerExpire"
                     \/ promise[j].code # promise[i].code )
                => Untouched(j)
    /\ \A j \in Ids : promise'[j].state = "pending"
                      => timer'[j] = "armed" /\ InCallbacks(callbacks', j)

C9_RejectionIsolatedPerCode == [][C9_AmendedStep]_vars

\* an unsupported frame has rejected one request while a request for
\* another code is still pending with its timer armed
C9_Witness ==
    /\ last.op = "onData"
    /\ At(last.buff, 2) = UNSUPPORTED
    /\ conencted
    /\ \E i, j \in Ids :
        /\ Called(i)
        /\ promise[i].error = UnsupportedError
        /\ promise[j].state = "pending"
        /\ promise[j].code # promise[i].code
        /\ timer[j] = "armed"
        /\ InCallbacks(callbacks, j)

\* C10 (as claimed): every chunk onData handles ends in a notification; a
\* chunk that cannot be decoded consistently ends in an 'error' notification
\* and the pending request for its code, if any, is rejected.
C10_NoFailureDropped ==
    last.op = "onData"
    => /\ last.threw = ""
       /\ Len(last.emits) = 1
       /\ (LastRes.thrown \/ ~LastRes.success
           \/ parseMsg(LastRes.code, LastRes.payload).status # "ok")
          => /\ last.emits[1].type = "error"
             /\ \A i \in Ids : (promise[i].code = last.code /\ InCallbacks(callbacks, i))
                               => promise[i].state = "rejected"

\* the ApiVersion that the answer to the MSP_API_VERSION request i carried
learnedApiVersion(i) == parseApiVersion(promise[i].value).fields[2].val

\* C11: once a MSP_API_VERSION request of the session has resolved, every
\* frame that onData decodes afterwards is handed to parseMsg together with
\* the ApiVersion which that answer carried.
C11_ApiVersionSupplied ==
    \A i \in Ids :
        ( /\ promise[i].code = MSP_API_VERSION
          /\ promise[i].state = "resolved"
          /\ parseApiVersion(promise[i].value).status = "ok"
          /\ last.op = "onData"
          /\ last.threw = ""
          /\ LastRes.success
          /\ ~Called(i) )
        => last.apiVersion = learnedApiVersion(i)

IsEmit(e, type) == e.type = type

\* C12: the session starts disconnected; a step of the 'open' handler leaves
\* it connected and emits exactly one 'connect', a step of the 'close' handler
\* leaves it disconnected and emits exactly one 'disconnect'; every other
\* step, the API calls included, keeps the connection flag and emits neither
\* notification; connect() and disconnect() call port.open() and port.close()
\* and change nothing else.
C12_Step ==
    /\ last.op = "init" => ~conencted
    /\ last'.op = "onOpen" =>
          conencted' /\ last'.emits = <<Emit("connect", Undef, "", NoMsg)>>
    /\ last'.op = "onClose" =>
          ~conencted' /\ last'.emits = <<Emit("disconnect", Undef, "", NoMsg)>>
    /\ last'.op \notin {"onOpen", "onClose"} =>
          /\ conencted' = conencted
          /\ \A k \in 1..Len(last'.emits) :
                ~IsEmit(last'.emits[k], "connect") /\ ~IsEmit(last'.emits[k], "disconnect")
    /\ last'.op \in {"connect", "disconnect"} =>
          /\ last'.port = (IF last'.op = "connect" THEN "open" ELSE "close")
          /\ last'.emits = <<>> /\ last'.wrote = <<>> /\ last'.calls = <<>>
          /\ UNCHANGED <<conencted, timeout, errorListeners, callbacks, promise, timer, deadline,
                         written, nextId, now>>

C12_ConnectedIffLastEventOpen == [][C12_Step]_vars

\* disconnect() was called on a session that had sent a request, and the
\* session is still connected: no 'close' event has come yet
C12_Witness ==
    /\ last.op = "disconnect"
    /\ conencted
    /\ written > 0

\* ------------------------------------------------- properties of the codec
\* CRC8/DVB-S2 by its definition, one message bit at a time from the most
\* significant: the register is shifted left and the polynomial 0xD5 is
\* added when the bit shifted out differs from the message bit.
Crc8RefBit(crc, bit) ==
    LET shifted == (crc * 2) % 256
    IN  IF (crc \div 128) # bit THEN BitXor(shifted, 213) ELSE shifted

RECURSIVE Crc8RefByte(_, _, _)
Crc8RefByte(crc, byte, n) ==
    IF n = 0 THEN crc
    ELSE Crc8RefByte(Crc8RefBit(crc, (byte \div (2 ^ (n - 1))) % 2), byte, n - 1)

RECURSIVE Crc8RefFold(_, _, _, _)
Crc8RefFold(crc, bytes, lo, hi) ==
    IF lo >= hi \/ crc < 0 THEN crc
    ELSE IF hi = lo + 1 THEN Crc8RefByte(crc, At(bytes, lo), 8)
    ELSE LET mid == (lo + hi) \div 2
         IN  Crc8RefFold(Crc8RefFold(crc, bytes, lo, mid), bytes, mid, hi)

Crc8Ref(bytes) == Crc8RefFold(0, bytes, 0, Len(bytes))

\* the frame built was decoded as it was built
Untampered == codec.tamper = ""

\* C13: a frame that encodeMessage built for a code of at most 254, decoded
\* by decodeMessage, gives a success result with that code, that payload and
\* a checksum field equal to the XOR of the length byte, the code byte and
\* the payload bytes.
C13_RoundTripV1 ==
    ( /\ codec.op = "decodeMessage"
      /\ codec.via = "encodeMessage"
      /\ Untampered
      /\ codec.code <= 254 )
    => /\ ~codec.res.thrown
       /\ codec.res.success
       /\ codec.res.code = codec.code
       /\ codec.res.payload = codec.payload
       /\ codec.res.checksum =
             XorAll(BitXor(At(codec.buff, 3), At(codec.buff, 4)), codec.payload)

\* C14: a frame that encodeMessageV2 built, decoded by decodeMessageV2, gives
\* a success result with the code and the payload that were encoded, and a
\* checksum field equal to CRC8/DVB-S2 of the bytes from the flag byte to
\* the end of the payload.
C14_RoundTripV2 ==
    ( /\ codec.op = "decodeMessageV2"
      /\ codec.via = "encodeMessageV2"
      /\ Untampered )
    => /\ ~codec.res.thrown
       /\ codec.res.success
       /\ codec.res.code = codec.code
       /\ codec.res.payload = codec.payload
       /\ codec.res.checksum = Crc8Ref(Slice(codec.buff, 3, 8 + Len(codec.payload)))

\* the test vector of utils.test.ts: code 0xffff, payload [1, 2], crc 0xe0
C14_Witness ==
    /\ codec.op = "decodeMessageV2"
    /\ codec.via = "encodeMessageV2"
    /\ Untampered
    /\ codec.code = 65535
    /\ codec.payload = <<1, 2>>
    /\ codec.res.checksum = 224

\* C15: for a code of at most 254 encodeMessage builds the bytes
\* 0x24 0x4D 0x3C, the number of payload bytes, the code, the payload and the
\* XOR of length, code and payload bytes; encode(1, []) and encode(2, [1,2,3])
\* are the frames the spec lists.
C15_V1FrameLayout ==
    /\ encodeMessage(1, <<>>) = <<36, 77, 60, 0, 1, 1>>
    /\ encodeMessage(2, <<1, 2, 3>>) = <<36, 77, 60, 3, 2, 1, 2, 3, 1>>
    /\ ( /\ codec.op = "encoded"
         /\ codec.via = "encodeMessage"
         /\ Untampered
         /\ codec.code <= 254 )
       => codec.buff = <<36, 77, 60, Len(codec.payload), codec.code>>
                         \o codec.payload
                         \o <<XorAll(BitXor(Len(codec.payload), codec.code),
                                     codec.payload)>>

\* C16: for a code above 254 encodeMessage builds the bytes 0x24 0x58 0x3C,
\* the flag 0, the code and the length low byte first, the payload and the
\* CRC8/DVB-S2 of the bytes from the flag to the end of the payload; the CRC
\* of no bytes is 0, encode(0x0100, []) ends in 0x83 and
\* encode(0x0200, [1,2,3]) in 0xD5.
C16_V2FrameLayout ==
    /\ crc8DvbS2Data(<<>>, 0, 0) = 0
    /\ encodeMessage(256, <<>>) = <<36, 88, 60, 0, 0, 1, 0, 0, 131>>
    /\ encodeMessage(512, <<1, 2, 3>>) = <<36, 88, 60, 0, 0, 2, 3, 0, 1, 2, 3, 213>>
    /\ ( /\ codec.op = "encoded"
         /\ codec.via = "encodeMessage"
         /\ Untampered
         /\ codec.code > 254 )
       => LET n == Len(codec.payload)
              covered == <<0, codec.code % 256, codec.code \div 256,
                           n % 256, n \div 256>> \o codec.payload
          IN  codec.buff = <<36, 88, 60>> \o covered \o <<Crc8Ref(covered)>>

C16_Witness ==
    /\ codec.op = "encoded"
    /\ codec.via = "encodeMessage"
    /\ Untampered
    /\ codec.code = 512
    /\ codec.payload = <<1, 2, 3>>
    /\ codec.buff[Len(codec.buff)] = 213

\* C17: decodeMessage takes the layout from the second byte of the buffer and
\* not from the code: a frame in the V2 layout is decoded as V2 whatever its
\* code, 254 and below included, and gives that code and payload back; a
\* frame in the V1 layout is decoded with the length at offset 3, the code at
\* offset 4 and the payload in bytes [5, 5 + length).
C17_LayoutFromMarker ==
    ( codec.op = "decodeMessage" /\ Untampered )
    => /\ ( codec.via = "encodeMessageV2" /\ At(codec.buff, 1) = PROTO_V2 )
          => /\ ~codec.res.thrown
             /\ codec.res.success
             /\ codec.res.code = codec.code
             /\ codec.res.len = Len(codec.payload)
             /\ codec.res.payload = codec.payload
       /\ At(codec.buff, 1) = PROTO_V1
          => /\ ~codec.res.thrown
             /\ codec.res.success
             /\ codec.res.len = At(codec.buff, 3)
             /\ codec.res.code = At(codec.buff, 4)
             /\ codec.res.payload =
                   Slice(codec.buff, 5, 5 + At(codec.buff, 3))

\* a V2 frame with code 2 and payload [1, 2, 3] was decoded by decodeMessage
C17_Witness ==
    /\ codec.op = "decodeMessage"
    /\ Untampered
    /\ codec.via = "encodeMessageV2"
    /\ codec.code = 2
    /\ codec.payload = <<1, 2, 3>>
    /\ codec.res.code = 2

\* C18: a frame, V1 or V2, whose third byte is '!' decodes to a failure
\* result for the code the frame carries: the call neither throws nor
\* succeeds.
C18_UnsupportedYieldsFailure ==
    ( codec.op = "decodeMessage" /\ codec.tamper = "unsupported" )
    => /\ At(codec.buff, 2) = UNSUPPORTED
       /\ ~codec.res.thrown
       /\ ~codec.res.success
       /\ codec.res =
             DecodeFail(IF At(codec.buff, 1) = PROTO_V1
                        THEN At(codec.buff, 4)
                        ELSE At(codec.buff, 4) + 256 * At(codec.buff, 5))

\* a V2 frame for code 0x0100 came back with the '!' marker and was decoded
C18_Witness ==
    /\ codec.op = "decodeMessage"
    /\ codec.tamper = "unsupported"
    /\ At(codec.buff, 1) = PROTO_V2
    /\ codec.code = 256
    /\ codec.res.code = 256
    /\ ~codec.res.success

\* the checksum that the algorithm of the frame's version gives for the
\* fields of a decode result
ExpectedChecksum(buff, res) ==
    IF At(buff, 1) = PROTO_V1
    THEN XorAll(BitXor(res.len, res.code), res.payload)
    ELSE Crc8Ref(<<At(buff, 3), res.code % 256, res.code \div 256,
                   res.len % 256, res.len \div 256>> \o res.payload)

\* C19: every success result of decodeMessage, whatever the buffer, has a
\* length field equal to the size of its payload and a checksum field equal
\* to what the algorithm of its version gives.
C19_DecodedFrameInvariant ==
    ( codec.op = "decodeMessage" /\ codec.res.success )
    => /\ codec.res.len = Len(codec.res.payload)
       /\ codec.res.checksum = ExpectedChecksum(codec.buff, codec.res)

\* C19 as the code has it, for every buffer on which decodeMessage returns a
\* success result.  When the buffer holds the length field, the payload is
\* what the buffer holds of the announced length after the header, so
\* len = payload.length exactly when the buffer holds that many bytes; the
\* checksum field is the byte at the checksum position (offset 5 + len for
\* V1, undefined when the buffer ends before it; the last byte of the buffer
\* for V2), whatever it is.  When the buffer ends before the length byte (a
\* V1 buffer of fewer than 4 bytes), len and the checksum are undefined and
\* the payload is empty.  For a frame decoded as encodeMessage built it, with
\* a payload of at most 255 bytes in the V1 layout, len and the checksum
\* equal what the claim says.
C19_DecodedFieldsFromBuffer ==
    ( codec.op = "decodeMessage" /\ codec.res.success )
    => LET v1 == At(codec.buff, 1) = PROTO_V1
           header == IF v1 THEN 5 ELSE 8
           held == Max(Len(codec.buff) - header, 0)
           size == Len(codec.res.payload)
       IN  /\ (codec.res.len = Undef) <=> (v1 /\ Len(codec.buff) < 4)
           /\ IF codec.res.len = Undef
              THEN /\ codec.res.payload = <<>>
                   /\ codec.res.checksum = Undef
              ELSE /\ size = Min(codec.res.len, held)
                   /\ codec.res.payload = SubSeq(codec.buff, header + 1, header + size)
                   /\ codec.res.checksum =
                         (IF v1 THEN At(codec.buff, 5 + codec.res.len)
                          ELSE At(codec.buff, Len(codec.buff) - 1))
           /\ (codec.res.len = size) <=> (codec.res.len # Undef /\ held >= codec.res.len)
           /\ ( /\ Untampered
                /\ codec.via = "encodeMessage"
                /\ ~v1 \/ Len(codec.payload) <= 255 )
              => /\ codec.res.len = Len(codec.res.payload)
                 /\ codec.res.checksum = ExpectedChecksum(codec.buff, codec.res)

\* the first two bytes of a V1 frame were decoded with success: no length,
\* no payload, no checksum
C19_Witness ==
    /\ codec.op = "decodeMessage"
    /\ codec.tamper = "cut"
    /\ codec.buff = <<SYM_BEGIN, PROTO_V1>>
    /\ codec.res.success
    /\ codec.res.len = Undef
    /\ codec.res.payload = <<>>

\* ------------------------------------------ the checksum in the session
\* two buffers of the same length, a complete frame at least, that differ in
\* their last byte and nowhere else
DiffersOnlyInChecksum(a, b) ==
    /\ Len(a) = Len(b)
    /\ Len(a) >= 6
    /\ a[Len(a)] # b[Len(b)]
    /\ \A k \in 1..(Len(a) - 1) : a[k] = b[k]

SameButChecksum(r, q) ==
    /\ r.thrown = q.thrown
    /\ r.success = q.success
    /\ r.code = q.code
    /\ r.len = q.len
    /\ r.payload = q.payload

\* the step did to the pending requests and emitted what onData(buff) does
\* in the state the step started from
DeliveredAs(buff) ==
    LET res == decodeMessage(buff)
        m == IF res.success THEN parseMsg(res.code, res.payload)
             ELSE parseMsgResult("ok", NoMsg)
        hit == matchesFrom(callbacks, Len(callbacks), res.code)
        ids == {callbacks[hit[k]].id : k \in 1..Len(hit)}
    IN  /\ ~res.thrown
        /\ m.status = "ok"
        /\ last'.emits = processEvents(res, m)
        /\ callbacks' = removeMatching(callbacks, res.code)
        /\ timer' = clearTimeouts(ids)
        /\ promise' = [i \in Ids |->
                         IF i \in ids THEN settle(promise[i], res) ELSE promise[i]]
        /\ last'.calls = [k \in 1..Len(hit) |->
                            Call(callbacks[hit[k]].id,
                                 IF res.success THEN "resolve" ELSE "reject")]

\* C20: decodeMessage does not compare the checksum byte with anything:
\* buffers that differ only in that byte decode to the same success flag,
\* code, length and payload, and a step of onData on one of them emits the
\* 'message' and settles the pending requests exactly as onData on the other
\* would have done from the same state.
C20_DecodesAlike ==
    \A b \in InboundChunks :
        Len(b) >= 6 =>
            SameButChecksum(decodeMessage(b), decodeMessage(corruptChecksum(b)))

C20_Step ==
    /\ C20_DecodesAlike
    /\ OnDataStep =>
          \A b \in InboundChunks :
              DiffersOnlyInChecksum(b, last'.buff) =>
                  /\ SameButChecksum(decodeMessage(b), decodeMessage(last'.buff))
                  /\ decodeMessage(last'.buff).success
                  /\ \E k \in 1..Len(last'.emits) : IsEmit(last'.emits[k], "message")
                  /\ DeliveredAs(b)

C20_ChecksumNotVerified == [][C20_Step]_vars

\* the MSP_NAME frame with a wrong checksum byte was emitted as 'message' and
\* resolved a pending request with the payload "AB"
C20_Witness ==
    /\ last.op = "onData"
    /\ last.buff = corruptChecksum(deviceFrame(FROM_MWC, MSP_NAME, <<65, 66>>))
    /\ \E k \in 1..Len(last.emits) : IsEmit(last.emits[k], "message")
    /\ \E i \in Ids : /\ Called(i)
                      /\ promise[i].state = "resolved"
                      /\ promise[i].value = <<65, 66>>

\* ------------------------------------------------ properties of the parsers
HasField(fields, key) == \E k \in 1..Len(fields) : fields[k].key = key

FieldVal(fields, key) ==
    fields[CHOOSE k \in 1..Len(fields) : fields[k].key = key].val

ParsedBy(fn) == parser.op = "parsed" /\ parser.fn = fn

\* bytes of a board-info payload up to and including mcuTypeId: identifier,
\* version, type, capabilities, three length-prefixed texts, signature, mcu
BoardInfoCommonLen(data) ==
    LET t1 == 8
        t2 == t1 + 1 + data[t1 + 1]
        t3 == t2 + 1 + data[t2 + 1]
    IN  t3 + 1 + data[t3 + 1] + SIGNATURE_LENGTH + 1

\* C21 (as stated): decoding a board-info payload with the API version unset
\* leaves configurationState, sampleRateHz and configurationProblems out of
\* the result and reads no bytes for them; with API version "1.43.0" the
\* result has sampleRateHz and configurationProblems as read from the payload.
C21_GatedFieldsAbsentWhenUnset ==
    ParsedBy("parseBoardInfo") /\ parser.res.status = "ok" =>
        LET f == parser.res.fields
            n == BoardInfoCommonLen(parser.data)
        IN  /\ parser.apiVersion = NoApiVersion =>
                /\ ~HasField(f, "configurationState")
                /\ ~HasField(f, "sampleRateHz")
                /\ ~HasField(f, "configurationProblems")
                /\ parser.res.read = n
            /\ parser.apiVersion = API_VERSION_1_43 =>
                /\ HasField(f, "sampleRateHz")
                /\ HasField(f, "configurationProblems")
                /\ FieldVal(f, "sampleRateHz")
                     = <<ReadUInt16LE(parser.data, n + 1)>>
                /\ FieldVal(f, "configurationProblems")
                     = <<ReadUInt16LE(parser.data, n + 3)
                         + 65536 * ReadUInt16LE(parser.data, n + 5)>>

\* C21 (amended): with the API version unset the result has neither
\* configurationState nor sampleRateHz, has configurationProblems with the
\* value 0, and no byte beyond mcuTypeId is read; with API version "1.43.0"
\* the result has configurationState, sampleRateHz and configurationProblems,
\* read in that order from the one, two and four bytes after mcuTypeId.
C21_VersionGating ==
    ParsedBy("parseBoardInfo") /\ parser.res.status = "ok" =>
        LET f == parser.res.fields
            n == BoardInfoCommonLen(parser.data)
        IN  /\ parser.apiVersion = NoApiVersion =>
                /\ ~HasField(f, "configurationState")
                /\ ~HasField(f, "sampleRateHz")
                /\ FieldVal(f, "configurationProblems") = <<0>>
                /\ parser.res.read = n
            /\ parser.apiVersion = API_VERSION_1_43 =>
                /\ FieldVal(f, "configurationState") = <<At(parser.data, n)>>
                /\ HasField(f, "sampleRateHz")
                /\ HasField(f, "configurationProblems")
                /\ FieldVal(f, "sampleRateHz")
                     = <<ReadUInt16LE(parser.data, n + 1)>>
                /\ FieldVal(f, "configurationProblems")
                     = <<ReadUInt16LE(parser.data, n + 3)
                         + 65536 * ReadUInt16LE(parser.data, n + 5)>>
                /\ parser.res.read = n + 7

\* a payload that carries the gated bytes is decoded with the version unset
C21_Witness ==
    /\ ParsedBy("parseBoardInfo")
    /\ parser.res.status = "ok"
    /\ parser.apiVersion = NoApiVersion
    /\ Len(parser.data) = BoardInfoCommonLen(parser.data) + 7

\* -------------------------------------------- properties of the session (2)
\* getApiVersion(): parseApiVersion applied to what sendMessage resolved with
getApiVersion(value) == parseApiVersion(value)

ApiVersion_2_1_45 ==
    ParseOk(<<Num("mspProtocolVersion", 2), Str("apiVersion", API_VERSION_1_45)>>)

\* C22 (as stated): a pending MSP_API_VERSION request of a connected session
\* is resolved by the chunk [36,77,60,2,1,2,1,45,checksum], and getApiVersion
\* returns {mspProtocolVersion: 2, apiVersion: "1.45.0"} for it.
C22_ExampleStep ==
    \A i \in Ids :
        ( /\ last'.op = "onData"
          /\ last'.buff = ApiVersionChunk
          /\ InCallbacks(callbacks, i)
          /\ promise[i].code = MSP_API_VERSION
          /\ promise[i].state = "pending" )
        => /\ promise'[i].state = "resolved"
           /\ getApiVersion(promise'[i].value) = ApiVersion_2_1_45

C22_ExampleChunkResolves == [][C22_ExampleStep]_vars

\* C22 (amended): a pending MSP_API_VERSION request of a connected session is
\* resolved by the chunk [36,77,62,3,1,2,1,45,44], whose length byte counts
\* the three payload bytes, and getApiVersion returns
\* {mspProtocolVersion: 2, apiVersion: "1.45.0"} for it.
C22_AmendedStep ==
    \A i \in Ids :
        ( /\ last'.op = "onData"
          /\ last'.buff = <<36, 77, 62, 3, 1, 2, 1, 45, 44>>
          /\ InCallbacks(callbacks, i)
          /\ promise[i].code = MSP_API_VERSION
          /\ promise[i].state = "pending" )
        => /\ promise'[i].state = "resolved"
           /\ getApiVersion(promise'[i].value) = ApiVersion_2_1_45

C22_ApiVersionEndToEnd == [][C22_AmendedStep]_vars

C22_Witness ==
    /\ last.op = "onData"
    /\ last.buff = <<36, 77, 62, 3, 1, 2, 1, 45, 44>>
    /\ \E i \in Ids : /\ Called(i)
                      /\ promise[i].code = MSP_API_VERSION
                      /\ promise[i].state = "resolved"
                      /\ getApiVersion(promise[i].value) = ApiVersion_2_1_45

\* the 16-bit little-endian encodings of motor[0], ..., motor[n-1] in a row
MotorPairs(motor) ==
    [k \in 1..(2 * Len(motor)) |->
        IF k % 2 = 1 THEN motor[(k + 1) \div 2] % 256
        ELSE (motor[k \div 2] \div 256) % 256]

\* C23: on a connected session a step of setMotor(motor) issues exactly one
\* request: one write, one new pending entry with the code MSP_SET_MOTOR, and
\* the frame written is the encoding of MSP_SET_MOTOR with a payload of 2n
\* bytes whose i-th pair is the 16-bit little-endian encoding of motor[i].
C23_Step ==
    \A motor \in MotorLists :
        (conencted /\ setMotor(motor))
        => /\ written' = written + 1
           /\ callbacks' = Append(callbacks, [code |-> MSP_SET_MOTOR, id |-> nextId'])
           /\ last'.wrote = encodeMessage(MSP_SET_MOTOR, MotorPairs(motor))

C23_SetMotorPayload == [][C23_Step]_vars

\* C24: every request that sendMessage issued on a connected session is
\* unsettled only up to its deadline (issue time plus timeout), and is
\* eventually settled with its entry gone from the pending list, whatever
\* else is in flight and whatever arrives.
C24_EventuallySettledAndDestroyed ==
    \A i \in Ids :
        /\ [](promise[i].state = "pending" => timer[i] = "armed" /\ now <= deadline[i])
        /\ (promise[i].state = "pending")
             ~> (promise[i].state \in {"resolved", "rejected"}
                 /\ ~InCallbacks(callbacks, i))

\* C25: onData handles each chunk as one frame, on its own: the step that
\* handles a chunk emits exactly one notification, 'message' or 'error', for
\* the frame decoded from that chunk, and the settlements of that step are
\* calls for entries that were pending with the code of that frame.
C25_Step ==
    last'.op = "onData" /\ last' # last =>
        /\ Len(last'.emits) = 1
        /\ last'.emits[1].type \in {"message", "error"}
        /\ last'.emits[1].code = decodeMessage(last'.buff).code
        /\ \A k \in 1..Len(last'.calls) :
            /\ InCallbacks(callbacks, last'.calls[k].id)
            /\ promise[last'.calls[k].id].code = decodeMessage(last'.buff).code

C25_OneNotificationPerChunk == [][C25_Step]_vars

\* the entries of cbs whose code is not code, in their order
RECURSIVE OtherCodes(_, _)
OtherCodes(cbs, code) ==
    IF cbs = <<>> THEN <<>>
    ELSE (IF Head(cbs).code # code THEN <<Head(cbs)>> ELSE <<>>)
         \o OtherCodes(Tail(cbs), code)

\* C26: when onData returns for a frame with code c, every entry that was
\* pending with code c has been called, has no armed timer and is out of the
\* list, and if its request was unsettled it now has the frame's result (the
\* payload, or the unsupported error); no entry with code c remains; every
\* entry with another code keeps its place, its promise and its timer, and
\* is not called.
C26_Step ==
    OnDataStep =>
        LET res == decodeMessage(last'.buff) IN
        /\ \A i \in Ids :
            InCallbacks(callbacks, i) /\ promise[i].code = res.code =>
                /\ ~InCallbacks(callbacks', i)
                /\ timer'[i] # "armed"
                /\ \E k \in 1..Len(last'.calls) : last'.calls[k].id = i
                /\ promise[i].state = "pending" =>
                     IF res.success
                     THEN /\ promise'[i].state = "resolved"
                          /\ promise'[i].value = res.payload
                     ELSE /\ promise'[i].state = "rejected"
                          /\ promise'[i].error = UnsupportedError
        /\ ~HasCode(callbacks', res.code)
        /\ callbacks' = OtherCodes(callbacks, res.code)
        /\ \A i \in Ids :
            promise[i].code # res.code =>
                /\ promise'[i] = promise[i]
                /\ timer'[i] = timer[i]
                /\ deadline'[i] = deadline[i]
                /\ \A k \in 1..Len(last'.calls) : last'.calls[k].id # i

C26_FrameSettlesItsCodeOnly == [][C26_Step]_vars

\* one frame has settled two requests that were pending with its code
C26_Witness ==
    /\ last.op = "onData"
    /\ last.threw = ""
    /\ Len(last.calls) >= 2
    /\ \A k \in 1..Len(last.calls) :
        /\ promise[last.calls[k].id].state = "resolved"
        /\ promise[last.calls[k].id].value = LastRes.payload
        /\ timer[last.calls[k].id] = "cleared"
    /\ ~HasCode(callbacks, last.code)

\* C27: a close event flips the session to disconnected and leaves every
\* pending entry, its promise and its timer as they were; a request that is
\* unsettled, connected or not, has an armed timer whose deadline has not
\* passed, and it stops being unsettled only by the expiry of that timer
\* (rejected with the timeout error) or by a frame with its code.
C27_Step ==
    /\ last'.op = "onClose" =>
        /\ ~conencted'
        /\ callbacks' = callbacks
        /\ promise' = promise
        /\ timer' = timer
        /\ deadline' = deadline
        /\ last'.calls = <<>>
    /\ \A i \in Ids :
        /\ promise'[i].state = "pending" =>
            /\ timer'[i] = "armed"
            /\ now' <= deadline'[i]
            /\ InCallbacks(callbacks', i)
        /\ promise[i].state = "pending" /\ promise'[i].state # "pending" =>
            \/ /\ last'.op = "timerExpire"
               /\ last'.id = i
               /\ now' = deadline[i]
               /\ promise'[i].state = "rejected"
               /\ promise'[i].error = TimeoutError
            \/ /\ last'.op = "onData"
               /\ last'.code = promise[i].code
               /\ now' <= deadline[i]

C27_CloseLeavesPendingToTimeout == [][C27_Step]_vars

\* the port has closed while a request is pending with its timer armed
C27_Witness ==
    /\ last.op = "onClose"
    /\ ~conencted
    /\ \E i \in Ids : /\ InCallbacks(callbacks, i)
                      /\ promise[i].state = "pending"
                      /\ timer[i] = "armed"

\* C28: for every API version (unset, below 1.42.0, 1.42.0 or above) the
\* motor-config decoder reads each of its fields once, ten bytes in all: a
\* payload of at least ten bytes decodes without a read past its end, into
\* the three 16-bit throttle values of bytes 0..5 and motorCount, motorPoles,
\* useDshotTelemetry and useEscSensor of bytes 6..9.
C28_MotorConfigConsumesExactly ==
    ParsedBy("parseMotorConfig") /\ Len(parser.data) >= 10 =>
        /\ parser.res.status = "ok"
        /\ parser.res.read = 10
        /\ parser.res.fields =
             <<Num("minthrottle", ReadUInt16LE(parser.data, 0)),
               Num("maxthrottle", ReadUInt16LE(parser.data, 2)),
               Num("mincommand", ReadUInt16LE(parser.data, 4)),
               Num("motorCount", At(parser.data, 6)),
               Num("motorPoles", At(parser.data, 7)),
               Bool("useDshotTelemetry", At(parser.data, 8) # 0),
               Bool("useEscSensor", At(parser.data, 9) # 0)>>

\* C29: parseMotor, parseServo, parseRC and parseVoltageMeters return, for a
\* payload of any length, floor(length / 2) records and raise no error; the
\* trailing byte of a payload of odd length is left unread.
C29_RecordsFloorOfLength ==
    \A fn \in {"parseMotor", "parseServo", "parseRC", "parseVoltageMeters"} :
        ParsedBy(fn) =>
            /\ parser.res.status = "ok"
            /\ Len(parser.res.fields[1].val) = Len(parser.data) \div 2

\* the two bytes of a V2 frame at offset, read as a little-endian number
FrameField16(buff, offset) == At(buff, offset) + 256 * At(buff, offset + 1)

\* C30: the frame that encodeMessage builds for a code and a payload carries
\* the number of payload bytes in its length field and the code in its code
\* field, neither truncated nor wrapped: one byte each in the V1 layout, two
\* bytes each in the V2 layout; the payload follows the header in full.
C30_EncodedLengthAndCode ==
    codec.op = "encoded" /\ codec.via = "encodeMessage" /\ codec.tamper = "" =>
        IF At(codec.buff, 1) = PROTO_V1
        THEN /\ At(codec.buff, 3) = Len(codec.payload)
             /\ At(codec.buff, 4) = codec.code
             /\ Len(codec.buff) = 6 + Len(codec.payload)
             /\ Slice(codec.buff, 5, 5 + Len(codec.payload)) = codec.payload
        ELSE /\ FrameField16(codec.buff, 4) = codec.code
             /\ FrameField16(codec.buff, 6) = Len(codec.payload)
             /\ Len(codec.buff) = 9 + Len(codec.payload)
             /\ Slice(codec.buff, 8, 8 + Len(codec.payload)) = codec.payload

====
